---- MODULE Spec2Model ----
(***************************************************************************)
(* The health-check HTTP server of http-api-todos: the API description     *)
(* (todosApi), the handler registry (healthLive), the port configuration   *)
(* (serverPortConfig) and the layered bootstrap (serverLive, launched by   *)
(* the entry module), together with clients sending requests.              *)
(*                                                                         *)
(* Text (the PORT value, response bodies) is a sequence of one-character   *)
(* strings, so that parsing and encoding are computed, not assumed.        *)
(***************************************************************************)
EXTENDS Integers, Sequences, FiniteSets, TLC

VARIABLES
  env,           \* the process environment: is PORT set, and its text
  occupied,      \* ports held by other processes of the host
  pc,            \* position of the launched serverLive in its build
  port,          \* the port serverPortConfig yielded (NoPort before that)
  listener,      \* the transport's listening socket
  handlerStack,  \* the transport's stack of fetch handlers, top is last
  handlers,      \* the handler bindings healthLive has put in the context
  routes,        \* the router's routes, in registration order
  log,           \* lines written through the logger
  stderr,        \* failure reports written by the runtime
  exitCode,      \* the process's exit status (NoExit while it runs)
  requests,      \* requests clients have sent, in sending order
  invoked,       \* per request, how often the status handler ran for it
  main,          \* import.meta.main of the entry module
  messages,      \* the array of the mock console, one text per message
  layers,        \* the test-server layers of the test files, one record each
  prog,          \* the call of greet / program a test is running
  outcome        \* what the last call of a test returned or threw

serverVars == <<env, occupied, pc, port, listener, handlerStack, handlers, routes,
                log, stderr, exitCode, requests, invoked>>

harnessVars == <<main, messages, layers, prog, outcome>>

vars == <<env, occupied, pc, port, listener, handlerStack, handlers, routes,
          log, stderr, exitCode, requests, invoked,
          main, messages, layers, prog, outcome>>

(***************************************************************************)
(* Bounds of the model.                                                    *)
(***************************************************************************)
MaxLen == 1
MaxRequests == 2

(***************************************************************************)
(* Program constants.                                                      *)
(***************************************************************************)
DefaultPort == 3000
MinPort == 1
MaxPort == 65535

NoPort == 0 - 1
NoExit == 0 - 1

(***************************************************************************)
(* Text helpers.                                                           *)
(***************************************************************************)
Digits == <<"0", "1", "2", "3", "4", "5", "6", "7", "8", "9">>

IsDigit(c) == \E i \in 1..10 : Digits[i] = c

DigitVal(c) == (CHOOSE i \in 1..10 : Digits[i] = c) - 1

IsSpace(c) == c = " "

RECURSIVE TrimLeft(_)
TrimLeft(s) ==
  IF s # <<>> /\ IsSpace(Head(s)) THEN TrimLeft(Tail(s)) ELSE s

RECURSIVE TrimRight(_)
TrimRight(s) ==
  IF s # <<>> /\ IsSpace(s[Len(s)]) THEN TrimRight(SubSeq(s, 1, Len(s) - 1)) ELSE s

Trim(s) == TrimRight(TrimLeft(s))

RECURSIVE DecimalValue(_)
DecimalValue(s) ==
  IF s = <<>> THEN 0
  ELSE 10 * DecimalValue(SubSeq(s, 1, Len(s) - 1)) + DigitVal(s[Len(s)])

AllDigits(s) == \A i \in 1..Len(s) : IsDigit(s[i])

(* JavaScript Number(text) on text made of digits, spaces, "-" and letters *)
(* that begin no numeric literal: surrounding white space is dropped, the  *)
(* empty text is 0, an optionally negated run of digits is its decimal     *)
(* value, anything else is NaN.                                            *)
NumberOf(text) ==
  LET t == Trim(text) IN
  IF t = <<>> THEN [nan |-> FALSE, val |-> 0]
  ELSE IF AllDigits(t) THEN [nan |-> FALSE, val |-> DecimalValue(t)]
  ELSE IF Head(t) = "-" /\ Len(t) > 1 /\ AllDigits(Tail(t))
       THEN [nan |-> FALSE, val |-> 0 - DecimalValue(Tail(t))]
  ELSE [nan |-> TRUE, val |-> 0]

RECURSIVE NatToString(_)
NatToString(n) ==
  IF n < 10 THEN <<Digits[n + 1]>>
  ELSE NatToString(n \div 10) \o <<Digits[(n % 10) + 1]>>

(* JavaScript number.toString() on an integer *)
NumberToString(n) ==
  IF n < 0 THEN <<"-">> \o NatToString(0 - n) ELSE NatToString(n)

(***************************************************************************)
(* Port configuration: Config.port("PORT") with Config.withDefault(3000),  *)
(* read from the process environment.                                      *)
(***************************************************************************)

(* The environment lookup of the configuration provider: a variable that   *)
(* is not set is missing data, a variable that is set yields its text as   *)
(* it stands (the empty text too).                                         *)
LoadEnv(e) ==
  IF e.set THEN [tag |-> "Text", text |-> e.text]
  ELSE [tag |-> "MissingData", text |-> <<>>]

(* Variants of the parser with a wrong bound, used to show that the        *)
(* properties of the port range depend on it.                              *)
ParsePortExclusive(text) ==
  LET result == NumberOf(text) IN
  IF \/ result.nan
     \/ NumberToString(result.val) # text
     \/ result.val <= MinPort
     \/ result.val >= MaxPort
  THEN [tag |-> "InvalidData", value |-> NoPort, text |-> text]
  ELSE [tag |-> "Right", value |-> result.val, text |-> text]

ParsePortFromZero(text) ==
  LET result == NumberOf(text) IN
  IF \/ result.nan
     \/ NumberToString(result.val) # text
     \/ result.val < 0
     \/ result.val > MaxPort
  THEN [tag |-> "InvalidData", value |-> NoPort, text |-> text]
  ELSE [tag |-> "Right", value |-> result.val, text |-> text]

ParsePortNoUpper(text) ==
  LET result == NumberOf(text) IN
  IF \/ result.nan
     \/ NumberToString(result.val) # text
     \/ result.val < MinPort
  THEN [tag |-> "InvalidData", value |-> NoPort, text |-> text]
  ELSE [tag |-> "Right", value |-> result.val, text |-> text]

(* Config.port's parser: the text must be the canonical decimal form of an *)
(* integer in [MinPort, MaxPort].                                          *)
ParsePort(text) ==
  LET result == NumberOf(text) IN
  IF \/ result.nan
     \/ NumberToString(result.val) # text
     \/ result.val < MinPort
     \/ result.val > MaxPort
  THEN [tag |-> "InvalidData", value |-> NoPort, text |-> text]
  ELSE [tag |-> "Right", value |-> result.val, text |-> text]

ConfigPort(e) ==
  LET loaded == LoadEnv(e) IN
  IF loaded.tag = "MissingData"
  THEN [tag |-> "MissingData", value |-> NoPort, text |-> <<>>]
  ELSE ParsePort(loaded.text)

(* Variant: a default that replaces every error (an orElse).               *)
WithDefaultAlways(r, def) ==
  IF r.tag # "Right" THEN [tag |-> "Right", value |-> def, text |-> r.text]
  ELSE r

(* Config.withDefault: the default replaces missing data only; invalid     *)
(* data stays an error.                                                    *)
WithDefault(r, def) ==
  IF r.tag = "MissingData" THEN [tag |-> "Right", value |-> def, text |-> r.text]
  ELSE r

(* Variant: the configuration without its default.                         *)
serverPortConfigNoDefault(e) == ConfigPort(e)

serverPortConfig(e) == WithDefault(ConfigPort(e), DefaultPort)

(***************************************************************************)
(* The API description: one endpoint in one group in one API.              *)
(***************************************************************************)
statusEndpoint ==
  [name |-> "status", method |-> "GET", path |-> "/healthz", success |-> "String"]

healthGroup == [name |-> "Health", endpoints |-> <<statusEndpoint>>]

todosApi == [name |-> "TodosApi", groups |-> <<healthGroup>>]

(* "Server is running successfully" *)
StatusMessage ==
  <<"S", "e", "r", "v", "e", "r", " ", "i", "s", " ", "r", "u", "n", "n", "i",
    "n", "g", " ", "s", "u", "c", "c", "e", "s", "s", "f", "u", "l", "l", "y">>

(* Variant: a registry for group Health that binds nothing.                *)
healthLiveUnbound == [group |-> "Health", bindings |-> <<>>]

(* The handler registry: healthLive binds, for group Health, the endpoint  *)
(* name status to a computation that succeeds with StatusMessage. Each     *)
(* handle call adds one binding.                                           *)
healthLive ==
  [group |-> "Health",
   bindings |-> <<[name |-> "status", result |-> StatusMessage]>>]

(* The groups apiLive is provided with. *)
apiLive == <<healthLive>>

(***************************************************************************)
(* Routing and response encoding.                                          *)
(***************************************************************************)
RECURSIVE Concat(_)
Concat(ss) == IF ss = <<>> THEN <<>> ELSE Head(ss) \o Concat(Tail(ss))

(* The routes one provided group contributes: one route per handle call,   *)
(* with the method and path of the endpoint of that name in the API's      *)
(* group.                                                                  *)
GroupRoutes(group, provided) ==
  LET RouteOf(b) ==
        LET is == {i \in 1..Len(group.endpoints) : group.endpoints[i].name = b.name} IN
        IF is = {} THEN <<>>
        ELSE LET e == group.endpoints[CHOOSE i \in is : \A j \in is : i <= j] IN
             <<[method |-> e.method, path |-> e.path, group |-> group.name,
                name |-> e.name, result |-> b.result]>>
  IN Concat([i \in 1..Len(provided.bindings) |-> RouteOf(provided.bindings[i])])

(* The provided handler group of a given name, if the context holds one.   *)
ProvidedGroups(context, name) == {i \in 1..Len(context) : context[i].group = name}

(* Building the HTTP app from the API: every group of the API must be      *)
(* found in the context, else the build dies.                              *)
MissingGroups(api, context) ==
  {i \in 1..Len(api.groups) : ProvidedGroups(context, api.groups[i].name) = {}}

ApiRoutes(api, context) ==
  Concat([i \in 1..Len(api.groups) |->
            LET ps == ProvidedGroups(context, api.groups[i].name) IN
            IF ps = {} THEN <<>>
            ELSE GroupRoutes(api.groups[i], context[CHOOSE k \in ps : \A j \in ps : k <= j])])

(* JSON.stringify of a string: quotes around it, quote and backslash       *)
(* escaped.                                                                *)
JsonEscape(c) ==
  IF c = "\"" THEN <<"\\", "\"">>
  ELSE IF c = "\\" THEN <<"\\", "\\">>
  ELSE <<c>>

(* Variant: the text written without its quotes.                           *)
JsonStringifyUnquoted(s) == Concat([i \in 1..Len(s) |-> JsonEscape(s[i])])

JsonStringify(s) ==
  <<"\"">> \o Concat([i \in 1..Len(s) |-> JsonEscape(s[i])]) \o <<"\"">>

NoResponse == [status |-> 0, contentType |-> "", body |-> <<>>]

(* The transport's placeholder handler, in place until an app is served.   *)
StubResponse ==
  [status |-> 404, contentType |-> "text/plain;charset=utf-8",
   body |-> <<"n", "o", "t", " ", "f", "o", "u", "n", "d">>]

(* Variant: the success value written as plain text.                       *)
EncodeSuccessText(value) ==
  [status |-> 200, contentType |-> "text/plain", body |-> value]

(* The encoding of a handler's success value by the endpoint's schema.     *)
EncodeSuccess(value) ==
  [status |-> 200, contentType |-> "application/json", body |-> JsonStringify(value)]

RouteNotFound == [status |-> 404, contentType |-> "", body |-> <<>>]

(* Variant: routes matched by their path alone.                            *)
MatchingRoutesAnyMethod(table, req) ==
  {i \in 1..Len(table) : table[i].path = req.path}

MatchingRoutes(table, req) ==
  {i \in 1..Len(table) : table[i].method = req.method /\ table[i].path = req.path}

(* The router: the first route of the request's method and path answers.   *)
RouterResponse(table, req) ==
  LET ms == MatchingRoutes(table, req) IN
  IF ms = {} THEN RouteNotFound
  ELSE EncodeSuccess(table[CHOOSE i \in ms : \A j \in ms : i <= j].result)

(* The handler on top of the transport's stack answers the request.        *)
Respond(stack, table, req) ==
  IF stack[Len(stack)] = "app" THEN RouterResponse(table, req) ELSE StubResponse

(* The startup log line: "Listening on " and the formatted address.        *)
AddressLine(l) ==
  [text |-> "Listening on", scheme |-> "http", hostname |-> l.hostname, port |-> l.port]

(***************************************************************************)
(* The client derived from the API: HttpApiClient.make(todosApi, baseUrl). *)
(***************************************************************************)

(* The request Health.status() issues: the method and path of the          *)
(* endpoint, to the base URL.                                              *)
ClientStatusRequest(accept) ==
  [method |-> statusEndpoint.method, path |-> statusEndpoint.path, accept |-> accept]

(* The inside of a JSON string literal, unescaped: a backslash takes the   *)
(* quote or backslash after it, a bare quote ends the literal too early.   *)
RECURSIVE JsonUnescape(_)
JsonUnescape(s) ==
  IF s = <<>> THEN [ok |-> TRUE, value |-> <<>>]
  ELSE IF Head(s) = "\\"
    THEN IF Len(s) < 2 \/ s[2] \notin {"\"", "\\"}
         THEN [ok |-> FALSE, value |-> <<>>]
         ELSE LET rest == JsonUnescape(SubSeq(s, 3, Len(s))) IN
              [ok |-> rest.ok, value |-> IF rest.ok THEN <<s[2]>> \o rest.value ELSE <<>>]
  ELSE IF Head(s) = "\""
    THEN [ok |-> FALSE, value |-> <<>>]
  ELSE LET rest == JsonUnescape(Tail(s)) IN
       [ok |-> rest.ok, value |-> IF rest.ok THEN <<Head(s)>> \o rest.value ELSE <<>>]

(* JSON.parse of a body that must be a string literal.                     *)
JsonParseString(body) ==
  IF Len(body) < 2 \/ body[1] # "\"" \/ body[Len(body)] # "\""
  THEN [ok |-> FALSE, value |-> <<>>]
  ELSE JsonUnescape(SubSeq(body, 2, Len(body) - 1))

(* The client's decoding of a response by the endpoint's success schema:   *)
(* a 200 response whose JSON body is a string yields that string.          *)
ClientDecode(resp) ==
  IF resp.status = 200 THEN JsonParseString(resp.body)
  ELSE [ok |-> FALSE, value |-> <<>>]

(***************************************************************************)
(* The inputs: PORT texts, ports other processes hold, requests.           *)
(***************************************************************************)
Alphabet == {"0", "8", "a", " "}

ExampleTexts ==
  { <<"1">>, <<"8", "0">>, <<"0", "0", "8", "0">>, <<"3", "0", "0", "0">>,
    <<"8", "0", "8", "0">>, <<"6", "5", "5", "3", "5">>, <<"6", "5", "5", "3", "6">>,
    <<"7", "0", "0", "0", "0">>, <<"9", "9", "9", "9", "9">>, <<"a", "b", "c">>,
    <<"-", "1">>, <<" ", "8", "0">> }

PortTexts == UNION {[1..n -> Alphabet] : n \in 0..MaxLen} \cup ExampleTexts

Unset == [set |-> FALSE, text |-> <<>>]

Environments == {Unset} \cup {[set |-> TRUE, text |-> t] : t \in PortTexts}

OtherPorts == {DefaultPort}

Methods == {"GET", "POST"}
Paths == {"/healthz", "/todos"}
Accepts == {"*/*", "text/plain"}

Requests == [method : Methods, path : Paths, accept : Accepts]

Hostname == "0.0.0.0"

Closed == [bound |-> FALSE, hostname |-> Hostname, port |-> NoPort]

(* No TestServer service is in the context. *)
NoService == [provided |-> FALSE, port |-> NoPort, array |-> "none", own |-> <<>>]

(* No call of greet or program is running. *)
Idle == [call |-> "none", pc |-> "idle", from |-> 0, name |-> <<>>, executed |-> FALSE]

(* No call has returned or thrown. *)
NoResult == [tag |-> "none", value |-> <<>>]

(* Outside the tests there is no mock console, no test layer and no call   *)
(* of a test.                                                              *)
NoHarness ==
  /\ messages = <<>>
  /\ layers = <<>>
  /\ prog = Idle
  /\ outcome = NoResult

(***************************************************************************)
(* The initial state: the entry module is loaded as the main module, the   *)
(* layers are described, nothing has run.                                  *)
(***************************************************************************)
Init ==
  /\ env \in Environments
  /\ occupied \in SUBSET OtherPorts
  /\ pc = "start"
  /\ port = NoPort
  /\ listener = Closed
  /\ handlerStack = <<>>
  /\ handlers = <<>>
  /\ routes = <<>>
  /\ log = <<>>
  /\ stderr = <<>>
  /\ exitCode = NoExit
  /\ requests = <<>>
  /\ invoked = <<>>
  /\ main = TRUE
  /\ NoHarness

Pending == {i \in 1..Len(requests) : requests[i].state = "pending"}

(* Connections still open when the process dies are reset. *)
ResetPending(rs) ==
  [i \in 1..Len(rs) |->
     IF rs[i].state = "pending" THEN [rs[i] EXCEPT !.state = "reset"] ELSE rs[i]]

(* Variant: a failed launch that is attempted again.                       *)
FailLaunchRetry(stage, text) ==
  /\ pc' = "start"
  /\ exitCode' = exitCode
  /\ stderr' = Append(stderr, [stage |-> stage, text |-> text])
  /\ listener' = Closed
  /\ handlerStack' = <<>>
  /\ requests' = ResetPending(requests)

(* The runtime's handling of a failed launch: the scope is closed (the     *)
(* listener released), the cause is reported, the process exits with 1.    *)
FailLaunch(stage, text) ==
  /\ pc' = "exited"
  /\ exitCode' = 1
  /\ stderr' = Append(stderr, [stage |-> stage, text |-> text])
  /\ listener' = Closed
  /\ handlerStack' = <<>>
  /\ requests' = ResetPending(requests)

(***************************************************************************)
(* serverLive, step by step in the order the layers are built.             *)
(***************************************************************************)

(* const port = yield* serverPortConfig *)
ResolvePort ==
  /\ pc = "start"
  /\ LET r == serverPortConfig(env) IN
     IF r.tag = "Right"
     THEN /\ port' = r.value
          /\ pc' = "config"
          /\ UNCHANGED <<listener, handlerStack, stderr, exitCode, requests>>
     ELSE /\ FailLaunch("config", r.text)
          /\ UNCHANGED port
  /\ UNCHANGED <<env, occupied, handlers, routes, log, invoked>>
  /\ UNCHANGED harnessVars

(* return HttpApiBuilder.serve().pipe(...): the layer of the server is     *)
(* composed from the API, its handlers, the address logging and the        *)
(* transport on the resolved port; it is a description, nothing is built.  *)
ComposeLayer ==
  /\ pc = "config"
  /\ pc' = "composed"
  /\ UNCHANGED <<env, occupied, port, listener, handlerStack, handlers, routes,
                 log, stderr, exitCode, requests, invoked>>
  /\ UNCHANGED harnessVars

(* Variant: the transport layer reads the configuration again when built.  *)
BindListenerRereads ==
  /\ pc = "composed"
  /\ LET r == serverPortConfig(env)
         p == IF r.tag = "Right" THEN r.value ELSE port
     IN IF p \in occupied
        THEN /\ FailLaunch("bind", NumberToString(p))
        ELSE /\ listener' = [bound |-> TRUE, hostname |-> Hostname, port |-> p]
             /\ handlerStack' = <<"stub">>
             /\ pc' = "bound"
             /\ UNCHANGED <<stderr, exitCode, requests>>
  /\ UNCHANGED <<env, occupied, port, handlers, routes, log, invoked>>
  /\ UNCHANGED harnessVars

(* Variant: a transport that takes the next port when the given one is     *)
(* not free.                                                               *)
BindListenerNextFree ==
  /\ pc = "composed"
  /\ listener' = [bound |-> TRUE, hostname |-> Hostname,
                  port |-> IF port \in occupied THEN port + 1 ELSE port]
  /\ handlerStack' = <<"stub">>
  /\ pc' = "bound"
  /\ UNCHANGED <<stderr, exitCode, requests>>
  /\ UNCHANGED <<env, occupied, port, handlers, routes, log, invoked>>
  /\ UNCHANGED harnessVars

(* Layer.provide(BunHttpServer.layer({ port })), built first: the          *)
(* transport binds the port and answers with its placeholder until an app  *)
(* is served.                                                              *)
BindListener ==
  /\ pc = "composed"
  /\ IF port \in occupied
     THEN /\ FailLaunch("bind", NumberToString(port))
     ELSE /\ listener' = [bound |-> TRUE, hostname |-> Hostname, port |-> port]
          /\ handlerStack' = <<"stub">>
          /\ pc' = "bound"
          /\ UNCHANGED <<stderr, exitCode, requests>>
  /\ UNCHANGED <<env, occupied, port, handlers, routes, log, invoked>>
  /\ UNCHANGED harnessVars

(* Layer.provide(apiLive): healthLive is built into the context of the API *)
BuildApi ==
  /\ pc = "bound"
  /\ handlers' = apiLive
  /\ pc' = "api"
  /\ UNCHANGED <<env, occupied, port, listener, handlerStack, routes, log,
                 stderr, exitCode, requests, invoked>>
  /\ UNCHANGED harnessVars

(* HttpApiBuilder.serve(): the app is built from the API and its handlers  *)
(* and put on the transport.                                               *)
Serve ==
  /\ pc = "api"
  /\ IF MissingGroups(todosApi, handlers) # {}
     THEN /\ FailLaunch("serve", <<>>)
          /\ UNCHANGED routes
     ELSE /\ routes' = ApiRoutes(todosApi, handlers)
          /\ handlerStack' = Append(handlerStack, "app")
          /\ pc' = "serve"
          /\ UNCHANGED <<listener, stderr, exitCode, requests>>
  /\ UNCHANGED <<env, occupied, port, handlers, log, invoked>>
  /\ UNCHANGED harnessVars

(* Variant: the address is logged as soon as the transport has bound it.   *)
LogAddressEarly ==
  /\ \/ /\ pc = "bound"
        /\ log = <<>>
        /\ log' = Append(log, AddressLine(listener))
        /\ pc' = pc
     \/ /\ pc = "serve"
        /\ log' = IF log = <<>> THEN Append(log, AddressLine(listener)) ELSE log
        /\ pc' = "launched"
  /\ UNCHANGED <<env, occupied, port, listener, handlerStack, handlers, routes,
                 stderr, exitCode, requests, invoked>>
  /\ UNCHANGED harnessVars

(* Variant: the address logging applied twice.                             *)
LogAddressTwice ==
  /\ pc = "serve"
  /\ log' = log \o <<AddressLine(listener), AddressLine(listener)>>
  /\ pc' = "launched"
  /\ UNCHANGED <<env, occupied, port, listener, handlerStack, handlers, routes,
                 stderr, exitCode, requests, invoked>>
  /\ UNCHANGED harnessVars

(* HttpServer.withLogAddress: the bound address is logged once the served  *)
(* layer is built; the launch then waits until it is interrupted.          *)
LogAddress ==
  /\ pc = "serve"
  /\ log' = Append(log, AddressLine(listener))
  /\ pc' = "launched"
  /\ UNCHANGED <<env, occupied, port, listener, handlerStack, handlers, routes,
                 stderr, exitCode, requests, invoked>>
  /\ UNCHANGED harnessVars

(* SIGINT or SIGTERM: the runtime interrupts the launch, which waits for   *)
(* nothing else once the layer is built (the build itself runs to its end  *)
(* or to its failure).                                                     *)
Signal ==
  /\ pc = "launched"
  /\ pc' = "closing"
  /\ UNCHANGED <<env, occupied, port, listener, handlerStack, handlers, routes,
                 log, stderr, exitCode, requests, invoked>>
  /\ UNCHANGED harnessVars

(* Variant: an interrupted launch that exits as a failed one.              *)
ReleaseExitOne ==
  /\ pc = "closing"
  /\ Pending = {}
  /\ listener' = Closed
  /\ handlerStack' = <<>>
  /\ pc' = "exited"
  /\ exitCode' = 1
  /\ UNCHANGED <<env, occupied, port, handlers, routes, log, stderr, requests, invoked>>
  /\ UNCHANGED harnessVars

(* Variant: an exit that leaves the listener as it is.                     *)
ReleaseLeak ==
  /\ pc = "closing"
  /\ Pending = {}
  /\ pc' = "exited"
  /\ exitCode' = 0
  /\ UNCHANGED <<env, occupied, port, listener, handlerStack, handlers, routes,
                 log, stderr, requests, invoked>>
  /\ UNCHANGED harnessVars

(* The interrupted launch closes its scope: the app is taken off the       *)
(* transport and the listener is stopped once the open requests are        *)
(* answered; the process exits with 0.                                     *)
Release ==
  /\ pc = "closing"
  /\ Pending = {}
  /\ listener' = Closed
  /\ handlerStack' = <<>>
  /\ pc' = "exited"
  /\ exitCode' = 0
  /\ UNCHANGED <<env, occupied, port, handlers, routes, log, stderr, requests, invoked>>
  /\ UNCHANGED harnessVars

(***************************************************************************)
(* Clients.                                                                *)
(***************************************************************************)

(* A client sends a request to the server's address: the connection is     *)
(* accepted when the listener is bound and refused otherwise.              *)
SendRequest(req) ==
  /\ Len(requests) < MaxRequests
  /\ requests' = Append(requests,
       [req |-> req,
        state |-> IF listener.bound THEN "pending" ELSE "refused",
        resp |-> NoResponse])
  /\ invoked' = Append(invoked, 0)
  /\ UNCHANGED <<env, occupied, pc, port, listener, handlerStack, handlers, routes,
                 log, stderr, exitCode>>
  /\ UNCHANGED harnessVars

(* Variant: a request is dropped when another one is open.                 *)
HandleRequestDropConcurrent(i) ==
  /\ i \in Pending
  /\ requests' = [requests EXCEPT ![i] =
       IF Pending # {i}
       THEN [@ EXCEPT !.state = "reset"]
       ELSE [@ EXCEPT !.state = "answered",
                      !.resp = Respond(handlerStack, routes, requests[i].req)]]
  /\ invoked' = [invoked EXCEPT ![i] =
       IF Pending = {i} /\ handlerStack[Len(handlerStack)] = "app"
          /\ MatchingRoutes(routes, requests[i].req) # {}
       THEN @ + 1 ELSE @]
  /\ UNCHANGED <<env, occupied, pc, port, listener, handlerStack, handlers, routes,
                 log, stderr, exitCode>>
  /\ UNCHANGED harnessVars

(* Variant: a request no route matches gets a route of its own.            *)
HandleRequestRegisters(i) ==
  /\ i \in Pending
  /\ requests' = [requests EXCEPT ![i] =
       [@ EXCEPT !.state = "answered",
                 !.resp = Respond(handlerStack, routes, requests[i].req)]]
  /\ invoked' = [invoked EXCEPT ![i] =
       IF handlerStack[Len(handlerStack)] = "app"
          /\ MatchingRoutes(routes, requests[i].req) # {}
       THEN @ + 1 ELSE @]
  /\ routes' =
       IF handlerStack[Len(handlerStack)] = "app"
          /\ MatchingRoutes(routes, requests[i].req) = {}
       THEN Append(routes, [method |-> requests[i].req.method,
                            path |-> requests[i].req.path, group |-> "Health",
                            name |-> "status", result |-> StatusMessage])
       ELSE routes
  /\ UNCHANGED <<env, occupied, pc, port, listener, handlerStack, handlers,
                 log, stderr, exitCode>>
  /\ UNCHANGED harnessVars

(* Variant: the handler is run again when it has answered.                 *)
HandleRequestTwice(i) ==
  /\ i \in Pending
  /\ requests' = [requests EXCEPT ![i] =
       [@ EXCEPT !.state = "answered",
                 !.resp = Respond(handlerStack, routes, requests[i].req)]]
  /\ invoked' = [invoked EXCEPT ![i] =
       IF handlerStack[Len(handlerStack)] = "app"
          /\ MatchingRoutes(routes, requests[i].req) # {}
       THEN @ + 2 ELSE @]
  /\ UNCHANGED <<env, occupied, pc, port, listener, handlerStack, handlers, routes,
                 log, stderr, exitCode>>
  /\ UNCHANGED harnessVars

(* The transport hands an accepted request to its current handler and      *)
(* writes the response.                                                    *)
HandleRequest(i) ==
  /\ i \in Pending
  /\ requests' = [requests EXCEPT ![i] =
       [@ EXCEPT !.state = "answered",
                 !.resp = Respond(handlerStack, routes, requests[i].req)]]
  /\ invoked' = [invoked EXCEPT ![i] =
       IF handlerStack[Len(handlerStack)] = "app"
          /\ MatchingRoutes(routes, requests[i].req) # {}
       THEN @ + 1 ELSE @]
  /\ UNCHANGED <<env, occupied, pc, port, listener, handlerStack, handlers, routes,
                 log, stderr, exitCode>>
  /\ UNCHANGED harnessVars

Next ==
  \/ ResolvePort
  \/ ComposeLayer
  \/ BindListener
  \/ BuildApi
  \/ Serve
  \/ LogAddress
  \/ Signal
  \/ Release
  \/ \E req \in Requests : SendRequest(req)
  \/ \E i \in 1..MaxRequests : HandleRequest(i)

Spec == Init /\ [][Next]_vars

(***************************************************************************)
(* The server with its scheduling: the build of the layer proceeds, the    *)
(* transport hands every accepted request to its handler, and an           *)
(* interrupted launch closes. Signals and requests come as they may.       *)
(***************************************************************************)
LiveEnvironments == {Unset, [set |-> TRUE, text |-> <<"a", "b", "c">>]}

InitLive == Init /\ env \in LiveEnvironments

Fairness ==
  /\ WF_vars(ResolvePort \/ ComposeLayer \/ BindListener \/ BuildApi \/ Serve \/ LogAddress)
  /\ WF_vars(Release)
  /\ \A i \in 1..MaxRequests : WF_vars(HandleRequest(i))

LiveSpec == InitLive /\ [][Next]_vars /\ Fairness

(***************************************************************************)
(* The server in a process whose environment is changed while it runs.     *)
(***************************************************************************)
EnvChoices ==
  {Unset, [set |-> TRUE, text |-> <<"8", "0", "8", "0">>],
   [set |-> TRUE, text |-> <<"a", "b", "c">>]}

InitEnv == Init /\ env \in EnvChoices /\ occupied = {}

(* PORT is set, changed or removed in the process environment. *)
SetEnv(e) ==
  /\ e # env
  /\ env' = e
  /\ UNCHANGED <<occupied, pc, port, listener, handlerStack, handlers, routes,
                 log, stderr, exitCode, requests, invoked>>
  /\ UNCHANGED harnessVars

NextEnv ==
  \/ Next
  \/ \E e \in EnvChoices : SetEnv(e)

EnvSpec == InitEnv /\ [][NextEnv]_vars

(***************************************************************************)
(* The earlier serverLive, with the port written in the layer of the       *)
(* transport, launched in place of the configurable one.                   *)
(***************************************************************************)
FixedPort == 3000

(* BunHttpServer.layer({ port: 3000 }): no configuration is read. *)
UseFixedPort ==
  /\ pc = "start"
  /\ port' = FixedPort
  /\ pc' = "config"
  /\ UNCHANGED <<env, occupied, listener, handlerStack, handlers, routes, log,
                 stderr, exitCode, requests, invoked>>
  /\ UNCHANGED harnessVars

NextFixed ==
  \/ UseFixedPort
  \/ Next

FixedSpec == InitLive /\ [][NextFixed]_vars

(***************************************************************************)
(* The entry module, loaded as the main module of the process or imported  *)
(* by another module.                                                      *)
(***************************************************************************)
InitEntry ==
  /\ env \in LiveEnvironments
  /\ occupied \in SUBSET OtherPorts
  /\ pc = "load"
  /\ port = NoPort
  /\ listener = Closed
  /\ handlerStack = <<>>
  /\ handlers = <<>>
  /\ routes = <<>>
  /\ log = <<>>
  /\ stderr = <<>>
  /\ exitCode = NoExit
  /\ requests = <<>>
  /\ invoked = <<>>
  /\ main \in BOOLEAN
  /\ NoHarness

(* Variant: the launch without its guard.                                  *)
LoadEntryUnguarded ==
  /\ pc = "load"
  /\ pc' = "start"
  /\ UNCHANGED <<env, occupied, port, listener, handlerStack, handlers, routes,
                 log, stderr, exitCode, requests, invoked>>
  /\ UNCHANGED harnessVars

(* if (import.meta.main) { Layer.launch(serverLive).pipe(BunRuntime.runMain) } *)
LoadEntry ==
  /\ pc = "load"
  /\ pc' = IF main THEN "start" ELSE "imported"
  /\ UNCHANGED <<env, occupied, port, listener, handlerStack, handlers, routes,
                 log, stderr, exitCode, requests, invoked>>
  /\ UNCHANGED harnessVars

NextEntry ==
  \/ LoadEntry
  \/ Next

EntrySpec == InitEntry /\ [][NextEntry]_vars

(***************************************************************************)
(* The tests of the repository. They import the modules (none is the main  *)
(* module of the test process), so no server is launched by the entry.     *)
(***************************************************************************)
NoServer ==
  /\ env = Unset
  /\ occupied = {}
  /\ pc = "imported"
  /\ port = NoPort
  /\ listener = Closed
  /\ handlerStack = <<>>
  /\ handlers = <<>>
  /\ routes = <<>>
  /\ log = <<>>
  /\ stderr = <<>>
  /\ exitCode = NoExit
  /\ requests = <<>>
  /\ invoked = <<>>
  /\ main = FALSE

(* args.join(" ") *)
RECURSIVE JoinArgs(_)
JoinArgs(args) ==
  IF args = <<>> THEN <<>>
  ELSE IF Len(args) = 1 THEN args[1]
  ELSE args[1] \o <<" ">> \o JoinArgs(Tail(args))

(* The mock console's info: the text pushed with its prefix. *)
ConsoleInfo(args) == <<"i", "n", "f", "o", ":", " ">> \o JoinArgs(args)

(* The mock console's log: messages.push(args.join(" ")). *)
ConsoleLog(args) == JoinArgs(args)

(***************************************************************************)
(* greet and program, run by the tests on a mock console.                  *)
(***************************************************************************)
MaxMessages == 4

World == <<"W", "o", "r", "l", "d">>

Names == {World, <<"T", "e", "s", "t">>, <<"a", " ", "b">>, <<>>}

HelloFrom ==
  <<"H", "e", "l", "l", "o", " ", "f", "r", "o", "m", " ", "E", "f", "f",
    "e", "c", "t", " ", "+", " ", "B", "u", "n", " ", "+", " ", "T", "y",
    "p", "e", "S", "c", "r", "i", "p", "t", "!">>

(* `Hello, ${name}!` *)
Greeting(name) == <<"H", "e", "l", "l", "o", ",", " ">> \o name \o <<"!">>

Returned == [tag |-> "undefined", value |-> <<>>]

InitProgram == NoServer /\ NoHarness

(* const { messages, mockConsole } = createMockConsole(): a test starts on *)
(* a console of its own.                                                   *)
CreateMockConsole ==
  /\ prog.pc \in {"idle", "done"}
  /\ messages # <<>>
  /\ messages' = <<>>
  /\ prog' = Idle
  /\ outcome' = NoResult
  /\ UNCHANGED <<main, layers>>
  /\ UNCHANGED serverVars

(* A test runs greet(name), program, or program followed by a step of its  *)
(* own, with the mock console in place of the console.                     *)
StartCall(call, name) ==
  /\ prog.pc \in {"idle", "done"}
  /\ Len(messages) + 2 <= MaxMessages
  /\ prog' = [call |-> call,
              pc |-> IF call = "greet" THEN "greet" ELSE "hello",
              from |-> Len(messages),
              name |-> IF call = "greet" THEN name ELSE World,
              executed |-> FALSE]
  /\ outcome' = NoResult
  /\ UNCHANGED <<main, messages, layers>>
  /\ UNCHANGED serverVars

(* yield* Console.log("Hello from Effect + Bun + TypeScript!") *)
LogHello ==
  /\ prog.pc = "hello"
  /\ messages' = Append(messages, ConsoleLog(<<HelloFrom>>))
  /\ prog' = [prog EXCEPT !.pc = "greet"]
  /\ UNCHANGED <<main, layers, outcome>>
  /\ UNCHANGED serverVars

(* Variant: greet that logs its message a second time.                     *)
LogGreetingTwice ==
  /\ prog.pc = "greet"
  /\ messages' = messages \o <<ConsoleLog(<<Greeting(prog.name)>>),
                               ConsoleLog(<<Greeting(prog.name)>>)>>
  /\ prog' = [prog EXCEPT !.pc = IF prog.call = "testProgram" THEN "after" ELSE "done"]
  /\ outcome' = IF prog.call = "testProgram" THEN outcome ELSE Returned
  /\ UNCHANGED <<main, layers>>
  /\ UNCHANGED serverVars

(* greet(name): Console.log(`Hello, ${name}!`); program ends with          *)
(* greet("World") and returns nothing.                                     *)
LogGreeting ==
  /\ prog.pc = "greet"
  /\ messages' = Append(messages, ConsoleLog(<<Greeting(prog.name)>>))
  /\ prog' = [prog EXCEPT !.pc = IF prog.call = "testProgram" THEN "after" ELSE "done"]
  /\ outcome' = IF prog.call = "testProgram" THEN outcome ELSE Returned
  /\ UNCHANGED <<main, layers>>
  /\ UNCHANGED serverVars

(* yield* Effect.sync(() => { executed = true }) *)
FollowingStep ==
  /\ prog.pc = "after"
  /\ prog' = [prog EXCEPT !.pc = "done", !.executed = TRUE]
  /\ outcome' = Returned
  /\ UNCHANGED <<main, messages, layers>>
  /\ UNCHANGED serverVars

NextProgram ==
  \/ CreateMockConsole
  \/ \E call \in {"greet", "program", "testProgram"} : \E name \in Names :
       StartCall(call, name)
  \/ LogHello
  \/ LogGreeting
  \/ FollowingStep

ProgramSpec == InitProgram /\ [][NextProgram]_vars

(***************************************************************************)
(* createTestHttpServer's getServerUrl, over the messages of its mock      *)
(* console.                                                                *)
(***************************************************************************)
ListeningOn == <<"L", "i", "s", "t", "e", "n", "i", "n", "g", " ", "o", "n">>

HttpScheme == <<"h", "t", "t", "p", ":", "/", "/">>

NotFoundInLogs ==
  <<"S", "e", "r", "v", "e", "r", " ", "a", "d", "d", "r", "e", "s", "s",
    " ", "n", "o", "t", " ", "f", "o", "u", "n", "d", " ", "i", "n", " ",
    "l", "o", "g", "s">>

CouldNotExtract ==
  <<"C", "o", "u", "l", "d", " ", "n", "o", "t", " ", "e", "x", "t", "r",
    "a", "c", "t", " ", "U", "R", "L", " ", "f", "r", "o", "m", " ", "l",
    "o", "g", " ", "m", "e", "s", "s", "a", "g", "e">>

(* msg.includes(needle) *)
Includes(msg, needle) ==
  \E i \in 1..(Len(msg) - Len(needle) + 1) :
    SubSeq(msg, i, i + Len(needle) - 1) = needle

(* The regular expression's \s. *)
IsWhite(c) == c \in {" ", "\t", "\n", "\r"}

(* [^\s"] *)
IsUrlChar(c) == ~IsWhite(c) /\ c # "\""

(* The places where /http:\/\/[^\s"]+/ matches: the scheme, then at least  *)
(* one character of the class.                                             *)
UrlStarts(msg) ==
  {i \in 1..Len(msg) :
     /\ i + Len(HttpScheme) <= Len(msg)
     /\ SubSeq(msg, i, i + Len(HttpScheme) - 1) = HttpScheme
     /\ IsUrlChar(msg[i + Len(HttpScheme)])}

(* Variant: a match that runs to the next white space only.                *)
RECURSIVE UrlEndAtSpace(_, _)
UrlEndAtSpace(msg, j) ==
  IF j < Len(msg) /\ ~IsWhite(msg[j + 1]) THEN UrlEndAtSpace(msg, j + 1) ELSE j

(* The match is greedy: it runs while the characters are of the class.     *)
RECURSIVE UrlEnd(_, _)
UrlEnd(msg, j) ==
  IF j < Len(msg) /\ IsUrlChar(msg[j + 1]) THEN UrlEnd(msg, j + 1) ELSE j

(* addressMessage.match(/http:\/\/[^\s"]+/): the leftmost match, or none.  *)
UrlMatch(msg) ==
  LET starts == UrlStarts(msg) IN
  IF starts = {} THEN [found |-> FALSE, text |-> <<>>]
  ELSE LET i == CHOOSE k \in starts : \A j \in starts : k <= j IN
       [found |-> TRUE, text |-> SubSeq(msg, i, UrlEnd(msg, i + Len(HttpScheme)))]

(* messages.find(msg => msg.includes("Listening on") && msg.includes("http://")) *)
AddressMessages(msgs) ==
  {k \in 1..Len(msgs) : Includes(msgs[k], ListeningOn) /\ Includes(msgs[k], HttpScheme)}

GetServerUrl(msgs) ==
  LET as == AddressMessages(msgs) IN
  IF as = {} THEN [tag |-> "thrown", value |-> NotFoundInLogs]
  ELSE LET urlMatch == UrlMatch(msgs[CHOOSE k \in as : \A j \in as : k <= j]) IN
       IF ~urlMatch.found THEN [tag |-> "thrown", value |-> CouldNotExtract]
       ELSE [tag |-> "value", value |-> urlMatch.text]

(* Messages a console may have captured. *)
ExampleMessages ==
  { <<"l", "e", "v", "e", "l", "=", "I", "N", "F", "O", " ", "m", "e",
      "s", "s", "a", "g", "e", "=", "\"", "L", "i", "s", "t", "e", "n",
      "i", "n", "g", " ", "o", "n", " ", "h", "t", "t", "p", ":", "/",
      "/", "0", ".", "0", ".", "0", ".", "0", ":", "3", "0", "0", "0",
      "\"">>,
    <<"L", "i", "s", "t", "e", "n", "i", "n", "g", " ", "o", "n", " ",
      "h", "t", "t", "p", ":", "/", "/", "l", "o", "c", "a", "l", "h",
      "o", "s", "t", ":", "3", "0", "0", "1", " ", "n", "o", "w">>,
    <<"L", "i", "s", "t", "e", "n", "i", "n", "g", " ", "o", "n", " ",
      "h", "t", "t", "p", ":", "/", "/">>,
    <<"h", "t", "t", "p", ":", "/", "/", " ", "L", "i", "s", "t", "e",
      "n", "i", "n", "g", " ", "o", "n", " ", "h", "t", "t", "p", ":",
      "/", "/", "b", "\"", "c">>,
    <<"s", "e", "e", " ", "h", "t", "t", "p", ":", "/", "/", "x">>,
    <<"L", "i", "s", "t", "e", "n", "i", "n", "g", " ", "o", "n", " ",
      "p", "o", "r", "t">>,
    <<"H", "e", "l", "l", "o", ",", " ", "W", "o", "r", "l", "d", "!">> }

InitUrl == NoServer /\ NoHarness

(* Something is logged on the mock console. *)
PushMessage(m) ==
  /\ Len(messages) < MaxMessages
  /\ messages' = Append(messages, ConsoleLog(<<m>>))
  /\ UNCHANGED <<main, layers, prog, outcome>>
  /\ UNCHANGED serverVars

(* const serverUrl = getServerUrl() *)
CallGetServerUrl ==
  /\ prog' = [Idle EXCEPT !.call = "getServerUrl", !.pc = "done", !.from = Len(messages)]
  /\ outcome' = GetServerUrl(messages)
  /\ UNCHANGED <<main, messages, layers>>
  /\ UNCHANGED serverVars

NextUrl ==
  \/ \E m \in ExampleMessages : PushMessage(m)
  \/ CallGetServerUrl

UrlSpec == InitUrl /\ [][NextUrl]_vars

(***************************************************************************)
(* The test-server layers: testHttpServerLayer, and testServerLive as      *)
(* createTestHttpServer wraps it. Each test file builds its layer once,    *)
(* before its tests, and test files run side by side.                      *)
(***************************************************************************)
MaxLayers == 2

StartPort == 3000

TestPorts == {StartPort, StartPort + 1}

LayerKinds == {"testHttpServerLayer", "testServerLive"}

HostnameText == <<"0", ".", "0", ".", "0", ".", "0">>

(* portfinder.getPortPromise({ port }): the first port from the given one  *)
(* on that nothing listens on; none up to the highest port is an error.    *)
RECURSIVE FirstFree(_, _)
FirstFree(p, busy) ==
  IF p > MaxPort THEN NoPort
  ELSE IF p \notin busy THEN p
  ELSE FirstFree(p + 1, busy)

findAvailablePort(startPort, busy) == FirstFree(startPort, busy)

(* getServerUrl: () => `http://localhost:${port}` *)
TestServerUrl(service) ==
  <<"h", "t", "t", "p", ":", "/", "/", "l", "o", "c", "a", "l", "h", "o",
    "s", "t", ":">> \o NumberToString(service.port)

(* The array the TestServer service hands out: the mock console's, or the  *)
(* one it was made with.                                                   *)
ServiceMessages(layer) ==
  IF layer.service.array = "console" THEN layer.messages ELSE layer.service.own

(* The port a URL names: the digits after its last colon. *)
UrlPort(url) ==
  LET cs == {i \in 1..Len(url) : url[i] = ":"}
      c == CHOOSE i \in cs : \A j \in cs : j <= i
  IN DecimalValue(SubSeq(url, c + 1, Len(url)))

(* "Listening on " and the address, as withLogAddress logs it. *)
AddressText(line) ==
  ListeningOn \o <<" ">> \o HttpScheme \o HostnameText \o <<":">>
    \o NumberToString(line.port)

(* The default logger's line for a message (its time stamp and fiber       *)
(* fields, which differ from run to run, are left out).                    *)
LogLine(text) ==
  <<"l", "e", "v", "e", "l", "=", "I", "N", "F", "O", " ", "m", "e", "s",
    "s", "a", "g", "e", "=", "\"">> \o text \o <<"\"">>

NewLayer(kind) ==
  [kind |-> kind, pc |-> "start", port |-> NoPort, bound |-> FALSE,
   routes |-> <<>>, messages |-> <<>>, service |-> NoService]

InitTest ==
  /\ env \in EnvChoices
  /\ occupied \in SUBSET TestPorts
  /\ pc = "imported"
  /\ port = NoPort
  /\ listener = Closed
  /\ handlerStack = <<>>
  /\ handlers = <<>>
  /\ routes = <<>>
  /\ log = <<>>
  /\ stderr = <<>>
  /\ exitCode = NoExit
  /\ requests = <<>>
  /\ invoked = <<>>
  /\ main = FALSE
  /\ messages = <<>>
  /\ layers \in [1..MaxLayers -> {NewLayer(kind) : kind \in LayerKinds}]
  /\ prog = Idle
  /\ outcome = NoResult

TestFrame ==
  UNCHANGED <<env, pc, port, listener, handlerStack, handlers, routes, log,
              stderr, exitCode, requests, invoked, main, messages, prog>>

(* Variant: the test server started from the configured port.              *)
FindPortFromConfig(l) ==
  /\ layers[l].pc = "start"
  /\ LET r == serverPortConfig(env) IN
     layers' = [layers EXCEPT ![l] =
       IF r.tag = "Right"
       THEN [@ EXCEPT !.pc = "found", !.port = findAvailablePort(r.value, occupied)]
       ELSE [@ EXCEPT !.pc = "failed"]]
  /\ UNCHANGED <<occupied, outcome>>
  /\ TestFrame

(* const port = yield* findAvailablePort() *)
FindPort(l) ==
  /\ layers[l].pc = "start"
  /\ LET p == findAvailablePort(StartPort, occupied) IN
     layers' = [layers EXCEPT ![l] =
       IF p = NoPort THEN [@ EXCEPT !.pc = "failed"]
       ELSE [@ EXCEPT !.pc = "found", !.port = p]]
  /\ UNCHANGED <<occupied, outcome>>
  /\ TestFrame

(* TestServer.layer(port, messages) in testHttpServerLayer,                *)
(* TestServer.layer(port, []) in testServerLive.                           *)
ProvideTestServer(l) ==
  /\ layers[l].pc = "found"
  /\ layers' = [layers EXCEPT ![l] =
       [@ EXCEPT !.pc = "provided",
                 !.service = [provided |-> TRUE, port |-> layers[l].port,
                              array |-> IF layers[l].kind = "testHttpServerLayer"
                                        THEN "console" ELSE "own",
                              own |-> <<>>]]]
  /\ UNCHANGED <<occupied, outcome>>
  /\ TestFrame

(* NodeHttpServer.layer(createServer, { port }): the port is bound, or the *)
(* build of the layer fails when something listens on it.                  *)
BindTestListener(l) ==
  /\ layers[l].pc = "provided"
  /\ IF layers[l].port \in occupied
     THEN /\ layers' = [layers EXCEPT ![l] = [@ EXCEPT !.pc = "failed"]]
          /\ UNCHANGED occupied
     ELSE /\ layers' = [layers EXCEPT ![l] = [@ EXCEPT !.pc = "bound", !.bound = TRUE]]
          /\ occupied' = occupied \cup {layers[l].port}
  /\ UNCHANGED outcome
  /\ TestFrame

(* HttpApiBuilder.serve() with apiLive *)
ServeTestApi(l) ==
  /\ layers[l].pc = "bound"
  /\ layers' = [layers EXCEPT ![l] =
       [@ EXCEPT !.pc = "served", !.routes = ApiRoutes(todosApi, apiLive)]]
  /\ UNCHANGED <<occupied, outcome>>
  /\ TestFrame

(* HttpServer.withLogAddress, through the default logger, on the mock      *)
(* console of the layer.                                                   *)
LogTestAddress(l) ==
  /\ layers[l].pc = "served"
  /\ layers' = [layers EXCEPT ![l] =
       [@ EXCEPT !.pc = "built",
                 !.messages = Append(@, ConsoleLog(<<LogLine(AddressText(
                    AddressLine([hostname |-> Hostname, port |-> layers[l].port])))>>))]]
  /\ UNCHANGED <<occupied, outcome>>
  /\ TestFrame

(* const serverUrl = yield* TestServer.url *)
ReadUrl(l) ==
  /\ layers[l].pc = "built"
  /\ outcome' = [tag |-> "url", value |-> [layer |-> l, url |-> TestServerUrl(layers[l].service)]]
  /\ UNCHANGED <<occupied, layers>>
  /\ TestFrame

(* const messages = yield* TestServer.messages *)
ReadMessages(l) ==
  /\ layers[l].pc = "built"
  /\ outcome' = [tag |-> "messages",
                 value |-> [layer |-> l, messages |-> ServiceMessages(layers[l])]]
  /\ UNCHANGED <<occupied, layers>>
  /\ TestFrame

(* A test sends a request to the URL of its TestServer; the layer that     *)
(* listens on the port of the URL answers.                                 *)
Fetch(l, req) ==
  /\ layers[l].pc = "built"
  /\ LET p == UrlPort(TestServerUrl(layers[l].service))
         ls == {k \in 1..MaxLayers : layers[k].bound /\ layers[k].port = p}
     IN outcome' =
          [tag |-> "response",
           value |-> [layer |-> l, req |-> req,
                      resp |-> IF ls = {} THEN NoResponse
                               ELSE LET k == CHOOSE k \in ls : TRUE IN
                                    IF layers[k].pc \in {"served", "built"}
                                    THEN Respond(<<"app">>, layers[k].routes, req)
                                    ELSE NoResponse]]
  /\ UNCHANGED <<occupied, layers>>
  /\ TestFrame

(* The tests of the file are over: the scope of the layer is closed. *)
CloseTestLayer(l) ==
  /\ layers[l].pc = "built"
  /\ layers' = [layers EXCEPT ![l] = [@ EXCEPT !.pc = "closed", !.bound = FALSE]]
  /\ occupied' = occupied \ {layers[l].port}
  /\ UNCHANGED outcome
  /\ TestFrame

NextTest ==
  \/ \E l \in 1..MaxLayers :
       \/ FindPort(l)
       \/ ProvideTestServer(l)
       \/ BindTestListener(l)
       \/ ServeTestApi(l)
       \/ LogTestAddress(l)
       \/ ReadUrl(l)
       \/ ReadMessages(l)
       \/ \E req \in Requests : Fetch(l, req)
       \/ CloseTestLayer(l)
  \/ \E e \in EnvChoices : SetEnv(e)

TestSpec == InitTest /\ [][NextTest]_vars

(***************************************************************************)
(* Properties.                                                             *)
(***************************************************************************)
Quote == "\""

HealthzResponse ==
  [status |-> 200, contentType |-> "application/json",
   body |-> <<Quote>> \o StatusMessage \o <<Quote>>]

IsHealthz(req) == req.method = "GET" /\ req.path = "/healthz"

ConfigFailed == \E i \in 1..Len(stderr) : stderr[i].stage = "config"

(* The text is the decimal form of an integer: digits only, no leading     *)
(* zero unless the text is "0".                                            *)
IsDecimal(text) ==
  /\ text # <<>>
  /\ AllDigits(text)
  /\ (Len(text) > 1 => Head(text) # "0")

InRange(n) == MinPort <= n /\ n <= MaxPort

(* C1: while the server is listening (the launch is built and waits),      *)
(* every request it is sent is accepted, and every GET /healthz it answers *)
(* gets status 200, content type application/json and the JSON encoding of *)
(* "Server is running successfully" as body, whatever the request's        *)
(* headers and whatever requests came before.                              *)
HealthzAnswered ==
  [][pc = "launched" =>
       /\ \A i \in 1..Len(requests) :
            (/\ requests[i].state = "pending"
             /\ requests'[i].state # "pending"
             /\ IsHealthz(requests[i].req))
            => (requests'[i].state = "answered" /\ requests'[i].resp = HealthzResponse)
       /\ Len(requests') > Len(requests)
            => requests'[Len(requests')].state = "pending"]_vars

HealthzAnsweredWitness ==
  /\ pc = "launched"
  /\ Len(requests) = 2
  /\ requests[1].req = [method |-> "POST", path |-> "/todos", accept |-> "*/*"]
  /\ requests[1].resp = RouteNotFound
  /\ requests[1].state = "answered"
  /\ requests[2].req = [method |-> "GET", path |-> "/healthz", accept |-> "text/plain"]
  /\ requests[2].state = "answered"
  /\ requests[2].resp = HealthzResponse

(* C2: with PORT unset, the port configuration does not fail and yields    *)
(* 3000, and a listener the server binds is on port 3000.                  *)
UnsetPortIsDefault ==
  ~env.set =>
    /\ ~ConfigFailed
    /\ (pc # "start" => port = 3000)
    /\ (listener.bound => listener.port = 3000)

UnsetPortIsDefaultWitness ==
  /\ ~env.set
  /\ pc = "launched"
  /\ listener.bound
  /\ listener.port = 3000

(* C3: when PORT is the decimal form of an integer p in [1, 65535], the    *)
(* configuration yields p, a startup fails only when p cannot be bound,    *)
(* the listener is bound to p and to no other port, and the startup line   *)
(* carries p.                                                              *)
ValidPortIsBound ==
  (env.set /\ IsDecimal(env.text) /\ InRange(DecimalValue(env.text))) =>
    LET p == DecimalValue(env.text) IN
    /\ ~ConfigFailed
    /\ (pc # "start" => port = p)
    /\ (stderr # <<>> => p \in occupied)
    /\ (listener.bound => listener.port = p)
    /\ (pc = "launched" => listener.bound /\ Len(log) = 1)
    /\ \A i \in 1..Len(log) : log[i].text = "Listening on" /\ log[i].port = p

ValidPortIsBoundWitness ==
  /\ env = [set |-> TRUE, text |-> <<"6", "5", "5", "3", "5">>]
  /\ pc = "launched"
  /\ listener.bound
  /\ listener.port = 65535
  /\ log = <<[text |-> "Listening on", scheme |-> "http", hostname |-> Hostname,
              port |-> 65535]>>

(* The text holds a character of no number, or is the (possibly negated)   *)
(* decimal form of an integer outside [1, 65535].                          *)
NonNumeric(text) ==
  \E i \in 1..Len(text) : ~IsDigit(text[i]) /\ text[i] \notin {" ", "-"}

OutOfRange(text) ==
  \/ IsDecimal(text) /\ ~InRange(DecimalValue(text))
  \/ Len(text) > 1 /\ Head(text) = "-" /\ IsDecimal(Tail(text))

(* C4: when PORT is not numeric or is an integer outside [1, 65535], the   *)
(* startup fails at the configuration: no port is resolved (the default is *)
(* not used), no listener is ever bound, the server is never listening,    *)
(* and the process exits with status 1.                                    *)
InvalidPortFailsStartup ==
  (env.set /\ (NonNumeric(env.text) \/ OutOfRange(env.text))) =>
    /\ pc \in {"start", "exited"}
    /\ port = NoPort
    /\ ~listener.bound
    /\ handlerStack = <<>>
    /\ (pc = "exited" => exitCode = 1 /\ ConfigFailed)

InvalidPortFailsStartupWitness ==
  /\ env.set
  /\ env.text \in {<<"a", "b", "c">>, <<"7", "0", "0", "0", "0">>}
  /\ pc = "exited"
  /\ exitCode = 1
  /\ ~listener.bound

(* C5: when PORT is set to the empty text, the port configuration does not *)
(* fail and yields the default 3000, as when PORT is unset.                *)
EmptyPortIsDefault ==
  (env.set /\ env.text = <<>>) =>
    /\ ~ConfigFailed
    /\ (pc # "start" => port = DefaultPort)

PortZero == [set |-> TRUE, text |-> <<"0">>]

(* C6, as the specification states it: when PORT is 0 the startup          *)
(* succeeds, the server listens on a port the transport assigned and the   *)
(* startup line carries that port.                                         *)
PortZeroStarts ==
  env = PortZero =>
    /\ stderr = <<>>
    /\ exitCode # 1
    /\ (pc = "launched" => listener.bound /\ Len(log) = 1)

(* C6, amended: when PORT is 0 the startup fails at the configuration, as  *)
(* for any value outside [1, 65535]: no port is resolved, no listener is   *)
(* bound, no startup line is logged and the process exits with status 1.   *)
PortZeroRejected ==
  env = PortZero =>
    /\ pc \in {"start", "exited"}
    /\ port = NoPort
    /\ ~listener.bound
    /\ log = <<>>
    /\ (pc = "exited" =>
          exitCode = 1 /\ stderr = <<[stage |-> "config", text |-> <<"0">>]>>)

PortZeroRejectedWitness ==
  /\ env = PortZero
  /\ pc = "exited"
  /\ exitCode = 1
  /\ log = <<>>

(* C7: in an execution with an invalid PORT no line "Listening on" is ever *)
(* logged, and the process has exited with a status other than 0 without   *)
(* one.                                                                    *)
InvalidPortNeverLogs ==
  (env.set /\ (NonNumeric(env.text) \/ OutOfRange(env.text))) =>
    /\ \A i \in 1..Len(log) : log[i].text # "Listening on"
    /\ (exitCode # NoExit => exitCode # 0 /\ log = <<>>)

InvalidPortNeverLogsWitness ==
  /\ env = [set |-> TRUE, text |-> <<"9", "9", "9", "9", "9">>]
  /\ exitCode = 1
  /\ log = <<>>

(* C8: the startup line is logged at most once, it is logged by a step     *)
(* taken with the listener bound and carries "Listening on" with the http  *)
(* address of that listener, and a server that is listening has logged     *)
(* exactly one.                                                            *)
OneAddressLine ==
  /\ [](Len(log) <= 1)
  /\ [](pc = "launched" => Len(log) = 1)
  /\ [][log' # log =>
          /\ listener.bound
          /\ handlerStack # <<>>
          /\ log' = Append(log, [text |-> "Listening on", scheme |-> "http",
                                 hostname |-> listener.hostname,
                                 port |-> listener.port])]_vars

OneAddressLineWitness ==
  /\ pc = "launched"
  /\ listener.bound
  /\ Len(log) = 1
  /\ log[1].text = "Listening on"
  /\ log[1].scheme = "http"
  /\ log[1].port = listener.port

(* The states of the lifecycle, read off the position of the launch. *)
Lifecycle ==
  CASE pc = "start" -> "NotStarted"
    [] pc = "config" -> "ConfigResolved"
    [] pc \in {"composed", "bound", "api", "serve"} -> "Composed"
    [] pc = "launched" -> "Listening"
    [] pc = "closing" -> "ShuttingDown"
    [] pc = "exited" /\ exitCode = 0 -> "Stopped"
    [] OTHER -> "Failed"

LifecycleRank(st) ==
  CASE st = "NotStarted" -> 0
    [] st = "ConfigResolved" -> 1
    [] st = "Composed" -> 2
    [] st = "Listening" -> 3
    [] st = "ShuttingDown" -> 4
    [] st = "Stopped" -> 5
    [] OTHER -> 6

(* C9: every step keeps the lifecycle state or moves it to the next one of *)
(* NotStarted, ConfigResolved, Composed, Listening, ShuttingDown, Stopped, *)
(* or, from a state before Listening, ends the process as failed; a step   *)
(* that reports a failure ends the process, and a stopped or failed        *)
(* process takes no further step of the lifecycle.                         *)
LifecycleForward ==
  [][/\ \/ Lifecycle' = Lifecycle
        \/ LifecycleRank(Lifecycle') = LifecycleRank(Lifecycle) + 1
             /\ Lifecycle' # "Failed"
        \/ Lifecycle' = "Failed" /\ LifecycleRank(Lifecycle) < 3
     /\ stderr' # stderr => Lifecycle' = "Failed"
     /\ Lifecycle \in {"Stopped", "Failed"} =>
          UNCHANGED <<pc, port, listener, handlerStack, handlers, routes, log,
                      stderr, exitCode>>]_vars

LifecycleForwardWitness ==
  /\ pc = "exited"
  /\ exitCode = 0
  /\ Len(log) = 1
  /\ ~listener.bound

(* The bindings the context holds for an endpoint of a group, and the      *)
(* routes that serve it.                                                   *)
BindingsOf(g, e) ==
  UNION {{<<k, i>> : i \in {i \in 1..Len(handlers[k].bindings) :
                                  handlers[k].bindings[i].name = e.name}} :
           k \in {k \in 1..Len(handlers) : handlers[k].group = g.name}}

RoutesOf(g, e) ==
  {i \in 1..Len(routes) : routes[i].group = g.name /\ routes[i].name = e.name}

UnbindablePortFails ==
  /\ (port # NoPort /\ port \in occupied) =>
       /\ pc \in {"config", "composed", "exited"}
       /\ ~listener.bound
       /\ log = <<>>
       /\ (pc = "exited" =>
             exitCode = 1 /\ stderr = <<[stage |-> "bind", text |-> NumberToString(port)]>>)
  /\ (listener.bound => listener.port = port /\ port \notin occupied)

UnbindablePortFailsWitness ==
  /\ port = 3000
  /\ port \in occupied
  /\ pc = "exited"
  /\ exitCode = 1
  /\ ~listener.bound

(* C13: a request that is not GET /healthz is never answered with the      *)
(* health-check body: its answer has status 404.                           *)
OtherRequestsNotFound ==
  \A i \in 1..Len(requests) :
    (requests[i].state = "answered" /\ ~IsHealthz(requests[i].req)) =>
      /\ requests[i].resp.status = 404
      /\ requests[i].resp.body # HealthzResponse.body
      /\ requests[i].resp.body # StatusMessage

OtherRequestsNotFoundWitness ==
  /\ pc = "launched"
  /\ \E i \in 1..Len(requests) :
       /\ requests[i].req.method = "POST"
       /\ requests[i].req.path = "/healthz"
       /\ requests[i].state = "answered"
       /\ requests[i].resp = RouteNotFound
  /\ \E i \in 1..Len(requests) :
       /\ requests[i].req.method = "GET"
       /\ requests[i].req.path = "/todos"
       /\ requests[i].state = "answered"
       /\ requests[i].resp = RouteNotFound

(* C14: the status handler runs at most once for a request, only for a     *)
(* request that is GET /healthz, and only for a request that is answered.  *)
HandlerInvokedAtMostOnce ==
  /\ Len(invoked) = Len(requests)
  /\ \A i \in 1..Len(requests) :
       /\ invoked[i] <= 1
       /\ (~IsHealthz(requests[i].req) => invoked[i] = 0)
       /\ (invoked[i] = 1 =>
             requests[i].state = "answered" /\ requests[i].resp = HealthzResponse)

HandlerInvokedAtMostOnceWitness ==
  /\ Len(requests) = 2
  /\ IsHealthz(requests[1].req)
  /\ ~IsHealthz(requests[2].req)
  /\ requests[1].state = "answered"
  /\ requests[2].state = "answered"
  /\ requests[2].resp = RouteNotFound
  /\ invoked = <<1, 0>>

(* C16: a process that has exited, after a signal or after a failed        *)
(* startup, holds no listener and no handler on it.                        *)
NoListenerAfterExit ==
  pc = "exited" => (~listener.bound /\ handlerStack = <<>> /\ Pending = {})

NoListenerAfterExitWitness ==
  /\ pc = "exited"
  /\ exitCode = 0
  /\ Len(log) = 1
  /\ ~listener.bound
  /\ \E i \in 1..Len(requests) : requests[i].state = "answered"

(* C18: the derived client's Health.status() issues GET /healthz, and for  *)
(* a listening server the value it decodes from the answer is exactly the  *)
(* value the bound handler returned, "Server is running successfully".     *)
ClientYieldsHandlerValue ==
  [][pc = "launched" =>
       \A i \in 1..Len(requests) : \A a \in Accepts :
         (/\ requests[i].req = ClientStatusRequest(a)
          /\ requests[i].state = "pending"
          /\ requests'[i].state # "pending")
         => /\ IsHealthz(requests[i].req)
            /\ requests'[i].state = "answered"
            /\ ClientDecode(requests'[i].resp) = [ok |-> TRUE, value |-> StatusMessage]
            /\ \E k \in 1..Len(routes) :
                 ClientDecode(requests'[i].resp).value = routes[k].result]_vars

ClientYieldsHandlerValueWitness ==
  /\ pc = "launched"
  /\ \E i \in 1..Len(requests) :
       /\ requests[i].req = ClientStatusRequest("*/*")
       /\ requests[i].state = "answered"
       /\ ClientDecode(requests[i].resp) = [ok |-> TRUE, value |-> StatusMessage]
       /\ requests[i].resp.body # StatusMessage

(* C12: requests in flight together against a listening server are each   *)
(* answered, in whatever order they are handled: an open GET /healthz is   *)
(* eventually answered with the 200 health response, an open request is    *)
(* never dropped, handling one request changes no other, and an answer     *)
(* once given is never given again or changed.                             *)
ConcurrentRequestsAnswered ==
  /\ \A i \in 1..MaxRequests :
       (pc = "launched" /\ i \in Pending /\ IsHealthz(requests[i].req))
         ~> (/\ i <= Len(requests)
             /\ requests[i].state = "answered"
             /\ requests[i].resp = HealthzResponse)
  /\ [][\A i \in 1..Len(requests) :
          /\ (pc \in {"launched", "closing"} /\ requests[i].state = "pending")
               => requests'[i].state \in {"pending", "answered"}
          /\ requests[i].state = "answered" => requests'[i] = requests[i]
          /\ (pc = "launched" /\ requests'[i] # requests[i])
               => \A j \in 1..Len(requests) : j # i => requests'[j] = requests[j]]_vars

ConcurrentRequestsAnsweredWitness ==
  /\ pc = "launched"
  /\ Len(requests) = 2
  /\ IsHealthz(requests[1].req)
  /\ IsHealthz(requests[2].req)
  /\ requests[1].state = "pending"
  /\ requests[2].state = "answered"
  /\ requests[2].resp = HealthzResponse

(* C15: the port is read from the configuration in one step, the first of  *)
(* the launch, before a listener exists; the resolved port and the port of *)
(* the bound listener never change afterwards, and a change of PORT in the *)
(* environment changes nothing of the server.                              *)
PortReadOnce ==
  /\ [](listener.bound => listener.port = port)
  /\ [][pc # "start" => pc' # "start"]_vars
  /\ [][port' # port =>
          /\ pc = "start"
          /\ port = NoPort
          /\ ~listener.bound
          /\ port' = serverPortConfig(env).value]_vars
  /\ [][(listener.bound /\ listener'.bound) => listener' = listener]_vars
  /\ [][env' # env =>
          UNCHANGED <<pc, port, listener, handlerStack, handlers, routes, log,
                      stderr, exitCode, requests, invoked>>]_vars

PortReadOnceWitness ==
  /\ pc = "launched"
  /\ listener.bound
  /\ listener.port = DefaultPort
  /\ env = [set |-> TRUE, text |-> <<"8", "0", "8", "0">>]
  /\ \E i \in 1..Len(requests) :
       requests[i].state = "answered" /\ requests[i].resp = HealthzResponse

StartupFailed(stages) == \E i \in 1..Len(stderr) : stderr[i].stage \in stages

(* C17, as the specification states it: the exit status is other than 0    *)
(* exactly when the startup failed at the configuration or at the          *)
(* composition.                                                            *)
NonZeroExitByConfigOrComposition ==
  (exitCode # NoExit /\ exitCode # 0) <=> StartupFailed({"config", "serve"})

(* C17, amended: a listening server leaves that state by a signal only;    *)
(* once signalled it eventually exits with status 0; and the exit status   *)
(* is 1 exactly when the startup failed, at the configuration, at the bind *)
(* of the port or at the composition.                                      *)
ExitStatus ==
  /\ [][pc = "launched" => pc' \in {"launched", "closing"}]_vars
  /\ [][(pc = "launched" /\ pc' = "closing") =>
          UNCHANGED <<listener, handlerStack, routes, log, stderr, exitCode>>]_vars
  /\ (pc = "closing") ~> (pc = "exited" /\ exitCode = 0)
  /\ [](exitCode \in {NoExit, 0, 1})
  /\ []((exitCode # NoExit) <=> (pc = "exited"))
  /\ []((exitCode = 1) <=> StartupFailed({"config", "bind", "serve"}))
  /\ []((exitCode = 0) => (stderr = <<>> /\ Len(log) = 1))

ExitStatusWitness ==
  /\ pc = "exited"
  /\ exitCode = 0
  /\ stderr = <<>>
  /\ Len(log) = 1
  /\ Len(requests) = MaxRequests
  /\ \A i \in 1..Len(requests) : requests[i].state = "answered"

(* C20: when PORT is 0080 the port configuration does not fail and the     *)
(* server is started on port 80.                                           *)
LeadingZerosAccepted ==
  (env.set /\ env.text = <<"0", "0", "8", "0">>) =>
    /\ ~ConfigFailed
    /\ (pc # "start" => port = 80)

(* C21: with PORT unset, the first step of the configurable serverLive is  *)
(* the first step of the serverLive with the fixed port 3000 and the other *)
(* way round, all later steps being the same layers: both bind port 3000,  *)
(* log the line of that address and answer every request alike.            *)
UnsetPortAsFixedPort ==
  /\ [][(env = Unset /\ pc = "start") => (ResolvePort <=> UseFixedPort)]_vars
  /\ [](env = Unset =>
         /\ port \in {NoPort, FixedPort}
         /\ listener.bound => listener.port = FixedPort
         /\ \A i \in 1..Len(log) :
              log[i] = AddressLine([hostname |-> Hostname, port |-> FixedPort])
         /\ \A i \in 1..Len(requests) :
              requests[i].state = "answered" =>
                requests[i].resp \in
                  {StubResponse,
                   RouterResponse(ApiRoutes(todosApi, apiLive), requests[i].req)})

UnsetPortAsFixedPortWitness ==
  /\ env = Unset
  /\ pc = "launched"
  /\ listener.bound
  /\ listener.port = FixedPort
  /\ log = <<AddressLine(listener)>>
  /\ \E i \in 1..Len(requests) : requests[i].resp = HealthzResponse
  /\ \E i \in 1..Len(requests) : requests[i].resp = RouteNotFound

(* C22: sending or handling a request, whether a route matches it or not  *)
(* and whatever other requests are open, changes nothing of the server:    *)
(* the resolved port, the listener, the handler bindings and the routes    *)
(* stay as they are; once the server listens its routes are exactly        *)
(* GET /healthz bound to the status handler, and they never change.        *)
RequestsLeaveServerUnchanged ==
  /\ [][(requests' # requests /\ pc' = pc) =>
          UNCHANGED <<env, occupied, port, listener, handlerStack, handlers,
                      routes, log, stderr, exitCode>>]_vars
  /\ [][(pc = "launched" \/ pc = "closing") =>
          UNCHANGED <<routes, handlers>>]_vars
  /\ [](pc \in {"launched", "closing"} =>
          routes = <<[method |-> "GET", path |-> "/healthz", group |-> "Health",
                      name |-> "status", result |-> StatusMessage]>>)

RequestsLeaveServerUnchangedWitness ==
  /\ pc = "launched"
  /\ Len(requests) = 2
  /\ ~IsHealthz(requests[1].req)
  /\ requests[1].state = "answered"
  /\ requests[1].resp = RouteNotFound
  /\ IsHealthz(requests[2].req)
  /\ requests[2].state = "answered"
  /\ requests[2].resp = HealthzResponse
  /\ Len(routes) = 1
  /\ listener.port = port

(* C23: when the 'Listening on' line is written, and for as long as the   *)
(* server runs afterwards, the listener is bound and GET /healthz is       *)
(* routed to the handler: a request sent once the line is there is         *)
(* accepted, and a GET /healthz answered once the line is there gets the   *)
(* 200 health response, never the transport's or the router's 404.         *)
ListeningLineImpliesReady ==
  /\ []((log # <<>> /\ pc # "exited") =>
          /\ listener.bound
          /\ log[1] = AddressLine(listener)
          /\ \A a \in Accepts :
               Respond(handlerStack, routes, ClientStatusRequest(a)) = HealthzResponse)
  /\ [][(log' # log) =>
          /\ listener.bound
          /\ handlerStack[Len(handlerStack)] = "app"
          /\ \E k \in 1..Len(routes) :
               routes[k].method = "GET" /\ routes[k].path = "/healthz"]_vars
  /\ [][(log # <<>> /\ pc # "exited" /\ Len(requests') > Len(requests)) =>
          requests'[Len(requests')].state = "pending"]_vars
  /\ [][(log # <<>>) =>
          \A i \in 1..Len(requests) :
            (requests[i].state = "pending" /\ IsHealthz(requests[i].req)) =>
              \/ requests'[i] = requests[i]
              \/ /\ requests'[i].state = "answered"
                 /\ requests'[i].resp = HealthzResponse]_vars

ListeningLineImpliesReadyWitness ==
  /\ pc = "launched"
  /\ Len(log) = 1
  /\ Len(requests) = 1
  /\ IsHealthz(requests[1].req)
  /\ requests[1].state = "answered"
  /\ requests[1].resp = HealthzResponse
  /\ invoked = <<1>>

(* C27: the server is launched only when the entry module is the main     *)
(* module: when it is imported, no port is ever resolved, no listener      *)
(* bound, no line logged and nothing reported or exited; and the launch    *)
(* is under way only in a process whose main module it is.                 *)
LaunchedOnlyAsMain ==
  /\ [](~main =>
          /\ pc \in {"load", "imported"}
          /\ port = NoPort
          /\ ~listener.bound
          /\ handlerStack = <<>>
          /\ log = <<>>
          /\ stderr = <<>>
          /\ exitCode = NoExit)
  /\ [](pc \notin {"load", "imported"} => main)

LaunchedOnlyAsMainWitness ==
  /\ ~main
  /\ pc = "imported"
  /\ Len(requests) = MaxRequests
  /\ \A i \in 1..Len(requests) : requests[i].state = "refused"

(* C28: a run of program pushes exactly two messages, 'Hello from Effect  *)
(* + Bun + TypeScript!' and then 'Hello, World!', and returns undefined;   *)
(* when a step follows it in a larger effect, that step runs, and exactly  *)
(* two messages have been pushed before and after it; greet(name) pushes   *)
(* exactly one message, 'Hello, <name>!'. Messages pushed earlier stay.    *)
ProgramLogsTwoMessages ==
  /\ []((prog.pc \in {"after", "done"} /\ prog.call \in {"program", "testProgram"}) =>
          /\ Len(messages) = prog.from + 2
          /\ messages[prog.from + 1] =
               <<"H", "e", "l", "l", "o", " ", "f", "r", "o", "m", " ",
                 "E", "f", "f", "e", "c", "t", " ", "+", " ", "B", "u",
                 "n", " ", "+", " ", "T", "y", "p", "e", "S", "c", "r",
                 "i", "p", "t", "!">>
          /\ messages[prog.from + 2] =
               <<"H", "e", "l", "l", "o", ",", " ", "W", "o", "r", "l",
                 "d", "!">>)
  /\ []((prog.pc = "done" /\ prog.call = "program") => outcome = Returned)
  /\ []((prog.pc = "done" /\ prog.call = "testProgram") =>
          (prog.executed /\ outcome = Returned))
  /\ [](prog.executed => prog.pc = "done")
  /\ []((prog.pc = "done" /\ prog.call = "greet") =>
          /\ Len(messages) = prog.from + 1
          /\ messages[prog.from + 1] =
               <<"H", "e", "l", "l", "o", ",", " ">> \o prog.name \o <<"!">>
          /\ outcome = Returned)
  /\ [][(prog'.pc # "idle") =>
          (Len(messages') >= Len(messages)
           /\ SubSeq(messages', 1, Len(messages)) = messages)]_vars

ProgramLogsTwoMessagesWitness ==
  /\ prog.call = "testProgram"
  /\ prog.pc = "done"
  /\ prog.executed
  /\ prog.from = 1
  /\ Len(messages) = 3
  /\ messages[1] = <<"H", "e", "l", "l", "o", ",", " ", "T", "e", "s", "t",
                  "!">>

(* getServerUrl has just been called on the messages as they are. *)
UrlJustRead == prog.call = "getServerUrl" /\ prog.from = Len(messages)

(* The first message that contains both 'Listening on' and 'http://'. *)
IsAddressMessage(k) ==
  /\ k \in 1..Len(messages)
  /\ Includes(messages[k], ListeningOn) /\ Includes(messages[k], HttpScheme)
  /\ \A j \in 1..(k - 1) :
       ~(Includes(messages[j], ListeningOn) /\ Includes(messages[j], HttpScheme))

(* u is the first http:// URL of msg: the scheme and one or more           *)
(* characters up to the first white space or double quote, with no such    *)
(* text further left.                                                      *)
IsFirstUrl(u, msg) ==
  /\ Len(u) > Len(HttpScheme)
  /\ SubSeq(u, 1, Len(HttpScheme)) = HttpScheme
  /\ \A n \in (Len(HttpScheme) + 1)..Len(u) : ~IsWhite(u[n]) /\ u[n] # "\""
  /\ \E i \in 1..Len(msg) :
       /\ i + Len(u) - 1 <= Len(msg)
       /\ SubSeq(msg, i, i + Len(u) - 1) = u
       /\ (i + Len(u) <= Len(msg)) =>
            (IsWhite(msg[i + Len(u)]) \/ msg[i + Len(u)] = "\"")
       /\ \A h \in 1..(i - 1) :
            ~(/\ h + Len(HttpScheme) <= Len(msg)
              /\ SubSeq(msg, h, h + Len(HttpScheme) - 1) = HttpScheme
              /\ ~IsWhite(msg[h + Len(HttpScheme)])
              /\ msg[h + Len(HttpScheme)] # "\"")

(* C29, as the specification states it: whenever a message with both       *)
(* 'Listening on' and 'http://' has been captured, getServerUrl returns a  *)
(* value, the first http:// URL of the first such message.                 *)
UrlOfFirstAddressMessage ==
  UrlJustRead =>
    \A k \in 1..Len(messages) :
      IsAddressMessage(k) =>
        (outcome.tag = "value" /\ IsFirstUrl(outcome.value, messages[k]))

(* C29, amended: getServerUrl looks at the first captured message that     *)
(* contains both 'Listening on' and 'http://'. With no such message it     *)
(* throws 'Server address not found in logs'; when that message has an     *)
(* http:// URL it returns the first one, up to the first white space or    *)
(* double quote; when it has none ('http://' followed by nothing, a white  *)
(* space or a quote) it throws 'Could not extract URL from log message',   *)
(* whatever later messages hold. It never changes the messages.            *)
GetServerUrlResult ==
  /\ [](UrlJustRead =>
          /\ (\A k \in 1..Len(messages) : ~IsAddressMessage(k)) =>
               outcome = [tag |-> "thrown", value |-> NotFoundInLogs]
          /\ \A k \in 1..Len(messages) :
               IsAddressMessage(k) =>
                 \/ /\ outcome.tag = "value"
                    /\ IsFirstUrl(outcome.value, messages[k])
                 \/ /\ outcome = [tag |-> "thrown", value |-> CouldNotExtract]
                    /\ \A u \in {SubSeq(messages[k], a, b) :
                                   a \in 1..Len(messages[k]), b \in 1..Len(messages[k])} :
                         ~IsFirstUrl(u, messages[k]))
  /\ [][(outcome' # outcome \/ prog' # prog) => messages' = messages]_vars

GetServerUrlResultWitness ==
  /\ UrlJustRead
  /\ Len(messages) >= 3
  /\ ~Includes(messages[1], ListeningOn)
  /\ IsAddressMessage(2)
  /\ Includes(messages[3], ListeningOn)
  /\ outcome = [tag |-> "value",
                value |-> <<"h", "t", "t", "p", ":", "/", "/", "0", ".",
                            "0", ".", "0", ".", "0", ":", "3", "0", "0",
                            "0">>]

(* The layers that hold or are about to bind a port. *)
Building(l) == layers[l].pc \in {"found", "provided", "bound", "served", "built"}

(* C24: test-server layers built side by side never conflict on a port:    *)
(* no two of them are given the same port by findAvailablePort, and no     *)
(* bind fails because the port was taken after it was found free.          *)
NoPortConflict ==
  /\ \A l \in 1..MaxLayers : layers[l].pc # "failed"
  /\ \A k, l \in 1..MaxLayers :
       (k # l /\ Building(k) /\ Building(l)) => layers[k].port # layers[l].port

(* C25: once the layer made of testServerLive is built, the messages of    *)
(* its TestServer service contain the 'Listening on' line.                 *)
TestServerLiveMessagesHaveLine ==
  \A l \in 1..MaxLayers :
    (layers[l].kind = "testServerLive" /\ layers[l].pc = "built") =>
      \E i \in 1..Len(ServiceMessages(layers[l])) :
        Includes(ServiceMessages(layers[l])[i], ListeningOn)

(* p is the first port from StartPort on that nothing listens on. *)
IsFirstFreePort(p) ==
  /\ p >= StartPort
  /\ p \notin occupied
  /\ \A q \in StartPort..(p - 1) : q \in occupied

(* C26: the test server does not depend on PORT: whatever PORT is, and     *)
(* when it changes, the port of a layer is the first free port from 3000   *)
(* on, its build never fails on the configuration, the URL of its          *)
(* TestServer is http://localhost: and that port, and a request is         *)
(* answered by the route table alone; nothing in this refers to PORT, so   *)
(* runs that differ in PORT only are the same.                             *)
TestServerIgnoresPort ==
  /\ [][env' # env => UNCHANGED <<occupied, layers, outcome>>]_vars
  /\ [][\A l \in 1..MaxLayers :
          (layers[l].pc = "start" /\ layers'[l].pc # "start") =>
            (layers'[l].pc = "found" /\ IsFirstFreePort(layers'[l].port))]_vars
  /\ [][\A l \in 1..MaxLayers :
          layers[l].port # NoPort => layers'[l].port = layers[l].port]_vars
  /\ [](\A l \in 1..MaxLayers :
          /\ layers[l].service.provided => layers[l].service.port = layers[l].port
          /\ layers[l].bound => layers[l].port \in occupied)
  /\ [](outcome.tag = "url" =>
          /\ SubSeq(outcome.value.url, 1, 17) =
               <<"h", "t", "t", "p", ":", "/", "/", "l", "o", "c", "a",
                 "l", "h", "o", "s", "t", ":">>
          /\ DecimalValue(SubSeq(outcome.value.url, 18, Len(outcome.value.url))) =
               layers[outcome.value.layer].port)
  /\ [](outcome.tag = "response" =>
          outcome.value.resp =
            IF IsHealthz(outcome.value.req) THEN HealthzResponse ELSE RouteNotFound)
  /\ [](stderr = <<>> /\ exitCode = NoExit)

TestServerIgnoresPortWitness ==
  /\ env = [set |-> TRUE, text |-> <<"a", "b", "c">>]
  /\ layers[1].pc = "built"
  /\ layers[1].bound
  /\ layers[1].port = StartPort
  /\ outcome.tag = "response"
  /\ outcome.value.layer = 1
  /\ outcome.value.resp = HealthzResponse

====
